---- MODULE Spec2Model ----
(***************************************************************************)
(* Change-detection and alert-generation pipeline of compiq:               *)
(*   app/monitor.py   PageMonitor.check_url / check_all_urls               *)
(*   app/analyzer.py  Analyzer.process_pending_items and its helpers       *)
(*   app/database.py  MonitoredURL, PageSnapshot, NewsItem, Alert rows     *)
(* The persistence store is the shared state; every batch run works        *)
(* through its own ORM session (loaded rows, pending writes, commit).      *)
(***************************************************************************)
EXTENDS Integers, Sequences, FiniteSets, TLC

VARIABLES
    now,        \* datetime.utcnow(), in hours
    urls,       \* table monitored_urls: source id -> committed row
    snapshots,  \* table page_snapshots: row id = index
    sess,       \* ORM session of the running check_all_urls: id -> <<>> or <<current, loaded>>
    batch,      \* the running check_all_urls call
    lastCheck,  \* history: the most recent check_url call and what fetch_page returned
    news,       \* table news_items: row id = index
    alerts,     \* table alerts: row id = index
    insights,   \* table insights: the alert ids insights were generated from
    runs,       \* the process_pending_items calls in progress
    quiet       \* history: the table sizes a run that ran alone left behind

monVars == <<urls, snapshots, sess, batch, lastCheck>>
anVars == <<news, alerts, insights, runs, quiet>>
vars == <<now, monVars, anVars>>

----------------------------------------------------------------------------
(* Optional values: Python None / SQL NULL is the empty tuple.             *)

None == <<>>
Some(x) == <<x>>

\* bool(x) of an Optional[str]: None and "" are both falsy
TruthyStr(o) == o # None /\ o[1] # ""

\* bool(x) of an Optional text; a text is its sequence of lines, "" has none
TruthyText(o) == o # None /\ o[1] # <<>>

----------------------------------------------------------------------------
(* Bounds of the model and constants of the program.                       *)

MaxSnapshots == 2
MaxErrors == 2
DefaultInterval == 24

Sources == {1, 2}

\* A text is a sequence of stripped non-empty lines, a line a sequence of words.
TextAB == << <<"a">>, <<"b">> >>
TextABOneLine == << <<"a", "b">> >>
TextEmpty == <<>>
Texts == {TextAB, TextABOneLine, TextEmpty}

\* The second component of fetch_page's result when it fails.
TimeoutMessage == "Timeout after 30 seconds"
Messages == {TimeoutMessage, ""}

\* fetch_page returns (html, None) or (None, message); a page is named by
\* the text extract_text finds in it.
FetchResults ==
    {[html |-> Some(t), error |-> None] : t \in Texts}
        \cup {[html |-> None, error |-> Some(m)] : m \in Messages}

\* The instants at which the clock is read: around one check interval.
Instants == {0, 1, DefaultInterval, DefaultInterval + 1}
TwoInstants == {0, DefaultInterval}

\* Fetch results with a single page text.
OnePageFetches == {f \in FetchResults : f.html = None \/ f.html = Some(TextAB)}

----------------------------------------------------------------------------
(* PageMonitor helpers.                                                    *)

\* extract_text: the page's text; BeautifulSoup(None) raises inside the
\* try block and the except branch returns "".
extract_text(html) == IF html = None THEN TextEmpty ELSE html[1]

RECURSIVE Flatten(_)
Flatten(lines) ==
    IF lines = <<>> THEN <<>> ELSE Head(lines) \o Flatten(Tail(lines))

\* compute_hash: the digest of ' '.join(content.split()), written as the
\* word sequence it digests (xxh64 taken as collision-free on these texts).
compute_hash(text) == Flatten(text)

\* content.split('\n'): the empty text is one empty line.
SplitLines(text) == IF text = <<>> THEN << <<>> >> ELSE text

\* The words that begin with two minus signs, and with two plus signs.
DashWords == {"--", "---|---"}
PlusWords == {"++"}

\* line.startswith('---') and line.startswith('+++') for a line of the diff,
\* which is its first character, tag, followed by text.
StartsTriple(line) ==
    /\ line.text # <<>>
    /\ \/ line.tag = "-" /\ Head(line.text) \in DashWords
       \/ line.tag = "+" /\ Head(line.text) \in PlusWords

\* difflib.SequenceMatcher: the length of the common run of a from i and b
\* from j, inside a[..ahi] and b[..bhi].
RECURSIVE MatchLen(_, _, _, _, _, _)
MatchLen(a, b, i, j, ahi, bhi) ==
    IF i > ahi \/ j > bhi THEN 0
    ELSE IF a[i] # b[j] THEN 0
    ELSE 1 + MatchLen(a, b, i + 1, j + 1, ahi, bhi)

\* find_longest_match: of the longest common runs in a[alo..ahi] and
\* b[blo..bhi] the one that starts earliest in a, then earliest in b.
find_longest_match(a, b, alo, ahi, blo, bhi) ==
    LET starts == {p \in (alo..ahi) \X (blo..bhi) : a[p[1]] = b[p[2]]}
        size(p) == MatchLen(a, b, p[1], p[2], ahi, bhi)
    IN  IF starts = {} THEN [i |-> alo, j |-> blo, size |-> 0]
        ELSE LET p == CHOOSE p \in starts :
                        \A q \in starts :
                            \/ size(q) < size(p)
                            \/ size(q) = size(p) /\ p[1] < q[1]
                            \/ size(q) = size(p) /\ p[1] = q[1] /\ p[2] <= q[2]
             IN  [i |-> p[1], j |-> p[2], size |-> size(p)]

\* get_matching_blocks: the longest run, then the same to its left and to
\* its right; the pairs of matched positions.
RECURSIVE matching_blocks(_, _, _, _, _, _)
matching_blocks(a, b, alo, ahi, blo, bhi) ==
    LET m == find_longest_match(a, b, alo, ahi, blo, bhi)
    IN  IF m.size = 0 THEN {}
        ELSE matching_blocks(a, b, alo, m.i - 1, blo, m.j - 1)
             \cup {<<m.i + k, m.j + k>> : k \in 0..(m.size - 1)}
             \cup matching_blocks(a, b, m.i + m.size, ahi, m.j + m.size, bhi)

\* compute_diff: unified_diff of the two texts' lines.  Nothing for equal
\* texts; else the two file headers, then the lines of the hunks.  The
\* hunk headers and the context lines begin with neither + nor -, and
\* summarize_changes collects the - lines and the + lines apart, so they
\* are given here as the - lines followed by the + lines.
compute_diff(old_content, new_content) ==
    LET old_lines == SplitLines(old_content)
        new_lines == SplitLines(new_content)
        pairs == matching_blocks(old_lines, new_lines,
                                 1, Len(old_lines), 1, Len(new_lines))
        minus == SelectSeq([i \in 1..Len(old_lines) |-> i],
                           LAMBDA i : \A p \in pairs : p[1] # i)
        plus == SelectSeq([j \in 1..Len(new_lines) |-> j],
                          LAMBDA j : \A p \in pairs : p[2] # j)
    IN  IF old_lines = new_lines THEN <<>>
        ELSE << [tag |-> "-", text |-> <<"--", "previous">>],
                [tag |-> "+", text |-> <<"++", "current">>] >>
             \o [k \in 1..Len(minus) |-> [tag |-> "-", text |-> old_lines[minus[k]]]]
             \o [k \in 1..Len(plus) |-> [tag |-> "+", text |-> new_lines[plus[k]]]]

\* The lines of the diff with the given tag that summarize_changes keeps.
KeptLines(diff, tag) ==
    LET kept == SelectSeq(diff, LAMBDA line : /\ line.tag = tag
                                               /\ ~StartsTriple(line)
                                               /\ line.text # <<>>)
    IN  [k \in 1..Len(kept) |-> kept[k].text]

\* summarize_changes: the removed and the added lines counted in the
\* headings of the summary; both are empty for "No changes detected" and
\* for "Minor formatting changes only".
summarize_changes(diff) ==
    [removed |-> KeptLines(diff, "-"), added |-> KeptLines(diff, "+")]

\* summarize_changes(compute_diff(old, new)).
diff_summary_of(old, new) == summarize_changes(compute_diff(old, new))

NewUrl ==
    [is_active |-> TRUE,
     check_interval_hours |-> DefaultInterval,
     last_checked_at |-> None,
     last_content_hash |-> None,
     last_content |-> None,
     consecutive_errors |-> 0,
     last_error |-> None]

\* check_url, lines 156-158: what a failed fetch writes to the row.
RecordFailureDeactivating(row, error, t) ==
    [row EXCEPT !.last_error = error,
                !.consecutive_errors = @ + 1,
                !.last_checked_at = Some(t),
                !.is_active = row.consecutive_errors + 1 < 2]

RecordFailure(row, error, t) ==
    [row EXCEPT !.last_error = error,
                !.consecutive_errors = @ + 1,
                !.last_checked_at = Some(t)]

\* check_url, lines 163-165: what a successful fetch writes first.
RecordSuccess(row, t) ==
    [row EXCEPT !.consecutive_errors = 0,
                !.last_error = None,
                !.last_checked_at = Some(t)]

\* check_url, lines 174-179: the change decision.
HasChangesNoBaseline(row, content_hash) ==
    row.last_content_hash # Some(content_hash)

HasChangesWheneverKnown(row, content_hash) ==
    row.last_content_hash # None

HasChanges(row, content_hash) ==
    /\ row.last_content_hash # None
    /\ content_hash # row.last_content_hash[1]

\* check_url, lines 188-196 and 202: the snapshot row that is added.
NewSnapshotOnlyWhenChanged(s, content_hash, has_changes, diff_summary) ==
    IF has_changes
    THEN Some([monitored_url_id |-> s, content_hash |-> content_hash,
               has_changes |-> has_changes, diff_summary |-> diff_summary])
    ELSE None

NewSnapshot(s, content_hash, has_changes, diff_summary) ==
    Some([monitored_url_id |-> s, content_hash |-> content_hash,
          has_changes |-> has_changes, diff_summary |-> diff_summary])

\* check_url on the session's row at time t.
\* committed: db.session.commit() was reached; raised: an exception left
\* check_url before the commit, the row's pending writes staying in the session.
check_url(s, row, fetch, t) ==
    IF TruthyStr(fetch.error)
    THEN [row |-> RecordFailure(row, fetch.error, t),
          snapshot |-> None, committed |-> TRUE, raised |-> FALSE]
    ELSE
      LET reset == RecordSuccess(row, t)
          extracted_text == extract_text(fetch.html)
          content_hash == compute_hash(extracted_text)
          has_changes == HasChanges(row, content_hash)
          diff_summary ==
              IF has_changes /\ TruthyText(row.last_content)
              THEN Some(diff_summary_of(row.last_content[1], extracted_text))
              ELSE None
      IN  IF fetch.html = None
          THEN \* html_content[:50000] on None raises TypeError at line 192
               [row |-> reset, snapshot |-> None,
                committed |-> FALSE, raised |-> TRUE]
          ELSE [row |-> [reset EXCEPT !.last_content_hash = Some(content_hash),
                                      !.last_content = Some(extracted_text)],
                snapshot |-> NewSnapshot(s, content_hash, has_changes, diff_summary),
                committed |-> TRUE, raised |-> FALSE]

\* check_all_urls, lines 224-230: whether the loop calls check_url.
IsDueAfterInterval(row, force, t) ==
    ~ (/\ ~force
       /\ row.last_checked_at # None
       /\ t <= row.last_checked_at[1] + row.check_interval_hours)

IsDue(row, force, t) ==
    ~ (/\ ~force
       /\ row.last_checked_at # None
       /\ t < row.last_checked_at[1] + row.check_interval_hours)

----------------------------------------------------------------------------
(* The ORM session of a batch run.                                         *)

NoSession == [s \in Sources |-> None]

\* The row as the session sees it: loaded once, reloaded after expiry.
Loaded(s) == IF sess[s] = None THEN <<urls[s], urls[s]>> ELSE sess[s]

\* flush: UPDATE writes the columns whose value differs from the loaded one.
Flushed(db, entry) ==
    [f \in DOMAIN db |-> IF entry[1][f] # entry[2][f] THEN entry[1][f] ELSE db[f]]

\* commit with session contents ss: flush every loaded row, then expire all.
CommittedUrls(ss) ==
    [s \in Sources |-> IF ss[s] = None THEN urls[s] ELSE Flushed(urls[s], ss[s])]

----------------------------------------------------------------------------
(* Monitor operations.                                                     *)

Idle == [pc |-> "idle", force |-> FALSE, todo |-> {}, checked |-> {},
         raised |-> {}, visit |-> None, changes |-> {}]

CanFetch(row, fetch) ==
    /\ TruthyStr(fetch.error) => row.consecutive_errors < MaxErrors
    /\ fetch.html # None => Len(snapshots) < MaxSnapshots

\* The history entry of a check_url call.
Recorded(s, fetch) == Some([url |-> s, fetch |-> fetch, at |-> now])

\* routes.check_single_url / cli cmd_monitor --url: one check_url in a
\* session of its own; an exception ends the request and rolls back.
CheckSingle(s, fetch) ==
    /\ batch.pc = "idle"
    /\ CanFetch(urls[s], fetch)
    /\ LET r == check_url(s, urls[s], fetch, now)
       IN  /\ urls' = IF r.committed THEN [urls EXCEPT ![s] = r.row] ELSE urls
           /\ snapshots' = IF r.committed /\ r.snapshot # None
                           THEN Append(snapshots, r.snapshot[1])
                           ELSE snapshots
    /\ lastCheck' = Recorded(s, fetch)
    /\ UNCHANGED <<now, sess, batch, anVars>>

\* routes.check_single_url while check_all_urls is in its loop: the request
\* has a session of its own, loads the row, and commits.
CheckSingleOverlapping(s, fetch) ==
    /\ batch.pc = "loop"
    /\ CanFetch(urls[s], fetch)
    /\ LET r == check_url(s, urls[s], fetch, now)
       IN  /\ urls' = IF r.committed THEN [urls EXCEPT ![s] = r.row] ELSE urls
           /\ snapshots' = IF r.committed /\ r.snapshot # None
                           THEN Append(snapshots, r.snapshot[1])
                           ELSE snapshots
    /\ lastCheck' = Recorded(s, fetch)
    /\ UNCHANGED <<now, sess, batch, anVars>>

\* check_all_urls, line 220: the query loads every active row.
BatchStart(force) ==
    /\ batch.pc = "idle"
    /\ LET active == {s \in Sources : urls[s].is_active}
       IN  /\ batch' = [pc |-> "loop", force |-> force, todo |-> active,
                        checked |-> {}, raised |-> {}, visit |-> None,
                        changes |-> {}]
           /\ sess' = [s \in Sources |->
                         IF s \in active THEN <<urls[s], urls[s]>> ELSE None]
    /\ UNCHANGED <<now, urls, snapshots, lastCheck, anVars>>

\* What the loop decided for source s, seeing row at the current time.
Visit(s, row, checked) ==
    Some([url |-> s, last_checked_at |-> row.last_checked_at,
          at |-> now, checked |-> checked])

\* One iteration of the loop at lines 222-242 that skips its source.
BatchSkip(s) ==
    /\ batch.pc = "loop"
    /\ s \in batch.todo
    /\ LET entry == Loaded(s)
       IN  /\ ~IsDue(entry[1], batch.force, now)
           /\ sess' = [sess EXCEPT ![s] = entry]
           /\ batch' = [batch EXCEPT !.todo = @ \ {s},
                                     !.visit = Visit(s, entry[1], FALSE)]
    /\ UNCHANGED <<now, urls, snapshots, lastCheck, anVars>>

\* One iteration of the loop that calls check_url; its exception is caught
\* and logged at lines 240-242.
BatchCheck(s, fetch) ==
    /\ batch.pc = "loop"
    /\ s \in batch.todo
    /\ LET entry == Loaded(s)
           r == check_url(s, entry[1], fetch, now)
           ss == [sess EXCEPT ![s] = <<r.row, entry[2]>>]
       IN  /\ IsDue(entry[1], batch.force, now)
           /\ CanFetch(entry[1], fetch)
           /\ IF r.committed
              THEN /\ urls' = CommittedUrls(ss)
                   /\ sess' = NoSession
                   /\ snapshots' = IF r.snapshot # None
                                   THEN Append(snapshots, r.snapshot[1])
                                   ELSE snapshots
              ELSE /\ sess' = ss
                   /\ UNCHANGED <<urls, snapshots>>
           /\ batch' = [batch EXCEPT !.todo = @ \ {s},
                                     !.checked = @ \cup {s},
                                     !.raised = IF r.raised THEN @ \cup {s} ELSE @,
                                     !.visit = Visit(s, entry[1], TRUE),
                                     !.changes =
                                        IF /\ r.snapshot # None
                                           /\ r.snapshot[1].has_changes
                                        THEN @ \cup {Len(snapshots) + 1}
                                        ELSE @]
           /\ lastCheck' = Recorded(s, fetch)
    /\ UNCHANGED <<now, anVars>>

\* check_all_urls returns. The caller either commits again in the same
\* session (scheduler.run_page_monitor goes on to the analyzer) or the
\* application context ends and the session is rolled back.
BatchEnd(flush) ==
    /\ batch.pc = "loop"
    /\ batch.todo = {}
    /\ urls' = IF flush THEN CommittedUrls(sess) ELSE urls
    /\ sess' = NoSession
    /\ batch' = Idle
    /\ UNCHANGED <<now, snapshots, lastCheck, anVars>>

\* routes.update_url: the operator flips is_active.
UpdateUrl(s, active) ==
    /\ urls[s].is_active # active
    /\ urls' = [urls EXCEPT ![s].is_active = active]
    /\ UNCHANGED <<now, snapshots, sess, batch, lastCheck, anVars>>

Tick(t) ==
    /\ t > now
    /\ now' = t
    /\ UNCHANGED <<monVars, anVars>>

----------------------------------------------------------------------------

----------------------------------------------------------------------------
(* The analyzer: analyzer.py.  Each process_pending_items call runs in a   *)
(* session of its own; the calls of the scheduler, the CLI and the routes  *)
(* can overlap.                                                            *)

RateLimitHours == 6
RelevanceThreshold == 40
MaxAlerts == 2
MaxNews == 2

Runs == {1, 2}

\* monitored_urls.url and monitored_urls.competitor_id of a source.
UrlOf(s) == IF s = 1 THEN "u1" ELSE "u2"
CompetitorOf(s) == 1

\* The collected articles: one at the address of a monitored page, one
\* with no competitor (news_items.competitor_id is nullable).
Articles == {[url |-> "u1", competitor_id |-> Some(1)],
             [url |-> "u3", competitor_id |-> None]}

SignalTypes ==
    {"product_launch", "pricing_change", "feature_update", "partnership",
     "acquisition", "leadership_change", "marketing_campaign",
     "certification", "expansion", "regulatory", "other"}
RiskLevels == {"critical", "high", "medium", "low", "info"}

\* What the analysis capability answers: None when the call or json.loads
\* raises, else the JSON object.
ReplyHigh == [signal_type |-> "pricing_change", risk_level |-> "high",
              risk_score |-> 80, confidence_score |-> 90,
              immediate_actions |-> <<"Brief the pricing team">>]
ReplyLow == [signal_type |-> "other", risk_level |-> "low",
             risk_score |-> 39, confidence_score |-> 70,
             immediate_actions |-> <<>>]
Replies == {None, Some(ReplyHigh), Some(ReplyLow)}

\* min(100, int(x)): the clamp without its lower end.
ClampAbove(x) == IF x > 100 THEN 100 ELSE x

\* min(100, max(0, int(x)))
Clamp(x) == IF x > 100 THEN 100 ELSE IF x < 0 THEN 0 ELSE x

\* The actions of the playbook the reply names: it names none, and the
\* playbooks have no entry called default.
playbook_actions == <<>>

\* analyze_content, lines 405-424: the result of the except branch.
DegradedResult ==
    [signal_type |-> "other", risk_level |-> "medium",
     risk_score |-> 50, confidence_score |-> 0,
     recommended_actions |-> <<"Manual review required">>]

analyze_content(reply) ==
    IF reply = None
    THEN DegradedResult
    ELSE [signal_type |-> IF reply[1].signal_type \in SignalTypes
                          THEN reply[1].signal_type ELSE "other",
          risk_level |-> IF reply[1].risk_level \in RiskLevels
                         THEN reply[1].risk_level ELSE "medium",
          risk_score |-> Clamp(reply[1].risk_score),
          confidence_score |-> Clamp(reply[1].confidence_score),
          recommended_actions |-> reply[1].immediate_actions \o playbook_actions]

\* Alert(...) of analyze_page_change and analyze_news_item, after
\* _notify_teams: sent is whether the webhook is configured and accepted.
NewAlert(source_type, source_id, source_url, competitor_id, result, sent) ==
    [source_type |-> source_type, source_id |-> source_id,
     source_url |-> source_url, competitor_id |-> competitor_id,
     signal_type |-> result.signal_type, risk_level |-> result.risk_level,
     risk_score |-> result.risk_score,
     confidence_score |-> result.confidence_score,
     recommended_actions |-> result.recommended_actions,
     status |-> "new", detected_at |-> now, notification_sent |-> sent,
     acknowledged_at |-> None, resolved_at |-> None]

\* The alerts table if a failed side effect took the Alert back.
StoredAlertsUnlessEffectFails(alert, sent, ok) ==
    IF sent /\ ok THEN Append(alerts, alert) ELSE alerts

\* db.session.add(alert) and db.session.commit() come before _notify_teams
\* and _generate_insight, which catch their own exceptions.
StoredAlerts(alert, sent, ok) == Append(alerts, alert)

HasAlert(source_type, source_id) ==
    \E a \in 1..Len(alerts) :
        /\ alerts[a].source_type = source_type
        /\ alerts[a].source_id = source_id

RowIds(table) == [i \in 1..Len(table) |-> i]

\* process_pending_items, lines 585-590, without the outer join on alerts.
changed_snapshots ==
    SelectSeq(RowIds(snapshots), LAMBDA i : snapshots[i].has_changes)

\* process_pending_items, lines 585-590.
unprocessed_snapshots ==
    SelectSeq(RowIds(snapshots),
              LAMBDA i : snapshots[i].has_changes /\ ~HasAlert("page_change", i))

\* process_pending_items, line 601.
unprocessed_news ==
    SelectSeq(RowIds(news), LAMBDA i : ~news[i].is_processed)

\* _has_recent_alert with the cutoff taken after now instead of before.
has_recent_alert_later_cutoff(source_url, hours) ==
    \E a \in 1..Len(alerts) :
        /\ alerts[a].source_url = source_url
        /\ alerts[a].detected_at >= now + hours

\* _has_recent_alert with the cutoff itself left out.
has_recent_alert_after_cutoff(source_url, hours) ==
    \E a \in 1..Len(alerts) :
        /\ alerts[a].source_url = source_url
        /\ alerts[a].detected_at > now - hours

has_recent_alert(source_url, hours) ==
    \E a \in 1..Len(alerts) :
        /\ alerts[a].source_url = source_url
        /\ alerts[a].detected_at >= now - hours

\* _generate_insight is called for critical and high alerts; ok is whether
\* generate_from_alert returned an insight.
GeneratedInsights(result, alert_id, ok) ==
    IF result.risk_level \in {"critical", "high"} /\ ok
    THEN insights \cup {alert_id} ELSE insights

NoResults == [page_changes_processed |-> 0, news_processed |-> 0, alerts_created |-> 0]

\* The rows of the two input tables; rows are never deleted.
Inputs == [snapshots |-> Len(snapshots), news |-> Len(news)]

\* alone, input, before and raised are history: whether no other call has run
\* during this one, the input tables when it started, for a call that started
\* right after a call that ran alone with no snapshot or news item added
\* since that call started, the number of alerts at its start, and the news
\* items whose handling raised in this call; cut is the news items the
\* caller's previous call had in hand when it was cut short.
NoRun == [pc |-> "idle", snaps |-> <<>>, items |-> <<>>, item |-> None,
          results |-> NoResults, alone |-> FALSE, input |-> None, before |-> None,
          raised |-> {}, cut |-> {}]

\* db.session.commit() raised on news item n and the marks stayed.
AfterFailedCommitKeepingMarks(n) ==
    [news EXCEPT ![n].is_processed = TRUE, ![n].is_relevant = Some(TRUE)]

\* db.session.commit() raised on news item n: the session is rolled back
\* and the row keeps its committed values.
AfterFailedCommit(n) == news

\* news_collector.collect_for_competitor: one article that is not a duplicate.
AddNews(url, competitor_id) ==
    /\ \A n \in 1..Len(news) : news[n].url # url
    /\ news' = Append(news, [competitor_id |-> competitor_id, url |-> url,
                             is_processed |-> FALSE, is_relevant |-> None])
    /\ UNCHANGED <<now, monVars, alerts, insights, runs, quiet>>

\* Two collect_competitor_news calls that overlap: the is_duplicate query of
\* this one ran before the other committed the same URL, and its commit at
\* the end of the call stores the article a second time.
AddNewsRaced(url, competitor_id) ==
    /\ Len(news) < MaxNews
    /\ \E n \in 1..Len(news) : news[n].url = url
    /\ news' = Append(news, [competitor_id |-> competitor_id, url |-> url,
                             is_processed |-> FALSE, is_relevant |-> None])
    /\ UNCHANGED <<now, monVars, alerts, insights, runs, quiet>>

\* process_pending_items: the query for unprocessed snapshots.
RunStart(r) ==
    /\ runs[r].pc = "idle"
    /\ LET alone == \A o \in Runs \ {r} : runs[o].pc = "idle"
       IN  runs' = [o \in Runs |->
                      IF o = r
                      THEN [pc |-> "pages", snaps |-> unprocessed_snapshots,
                            items |-> <<>>, item |-> None, results |-> NoResults,
                            alone |-> alone,
                            input |-> IF alone THEN Some(Inputs) ELSE None,
                            before |-> IF alone /\ quiet = Some(Inputs)
                                       THEN Some(Len(alerts)) ELSE None,
                            raised |-> {}, cut |-> runs[r].cut]
                      ELSE [runs[o] EXCEPT !.alone = FALSE, !.input = None]]
    /\ UNCHANGED <<now, monVars, news, alerts, insights, quiet>>

\* process_pending_items, lines 592-598: analyze_page_change on one snapshot.
PageItem(r, reply, sent, ok) ==
    /\ runs[r].pc = "pages" /\ runs[r].snaps # <<>>
    /\ Len(alerts) < MaxAlerts
    /\ LET id == Head(runs[r].snaps)
           s == snapshots[id].monitored_url_id
           result == analyze_content(reply)
       IN  /\ alerts' = StoredAlerts(NewAlert("page_change", id, UrlOf(s),
                                               Some(CompetitorOf(s)), result, sent),
                                      sent, ok)
           /\ insights' = GeneratedInsights(result, Len(alerts) + 1, ok)
    /\ runs' = [runs EXCEPT ![r].snaps = Tail(@),
                            ![r].results.page_changes_processed = @ + 1,
                            ![r].results.alerts_created = @ + 1]
    /\ UNCHANGED <<now, monVars, news, quiet>>

\* process_pending_items, line 601: the query for unprocessed news.
PagesDone(r) ==
    /\ runs[r].pc = "pages" /\ runs[r].snaps = <<>>
    /\ runs' = [runs EXCEPT ![r].pc = "news", ![r].items = unprocessed_news]
    /\ UNCHANGED <<now, monVars, news, alerts, insights, quiet>>

\* analyze_news_item, lines 503-531: the rate limit, then the analysis call.
NewsBegin(r) ==
    /\ runs[r].pc = "news" /\ runs[r].items # <<>> /\ runs[r].item = None
    /\ LET n == Head(runs[r].items)
       IN  IF has_recent_alert(news[n].url, RateLimitHours)
           THEN /\ news' = [news EXCEPT ![n].is_processed = TRUE]
                /\ runs' = [runs EXCEPT ![r].items = Tail(@),
                                        ![r].results.news_processed = @ + 1]
           ELSE /\ news' = news
                /\ runs' = [runs EXCEPT ![r].items = Tail(@), ![r].item = Some(n)]
    /\ UNCHANGED <<now, monVars, alerts, insights, quiet>>

\* analyze_news_item, lines 533-574, and lines 606-610 of the caller.
NewsFinish(r, reply, sent, ok) ==
    /\ runs[r].pc = "news" /\ runs[r].item # None
    /\ LET n == runs[r].item[1]
           result == analyze_content(reply)
           is_relevant == result.risk_score >= RelevanceThreshold
       IN  IF ~is_relevant
           THEN /\ news' = [news EXCEPT ![n].is_processed = TRUE,
                                        ![n].is_relevant = Some(FALSE)]
                /\ runs' = [runs EXCEPT ![r].item = None,
                                        ![r].results.news_processed = @ + 1]
                /\ UNCHANGED <<alerts, insights>>
           ELSE IF news[n].competitor_id = None
           THEN \* alerts.competitor_id is NOT NULL: the commit raises and
                \* rolls the session back
                /\ news' = AfterFailedCommit(n)
                /\ runs' = [runs EXCEPT ![r].item = None,
                                        ![r].raised = @ \cup {n}]
                /\ UNCHANGED <<alerts, insights>>
           ELSE /\ Len(alerts) < MaxAlerts
                /\ news' = [news EXCEPT ![n].is_processed = TRUE,
                                        ![n].is_relevant = Some(TRUE)]
                /\ alerts' = StoredAlerts(NewAlert("news", n, news[n].url,
                                                    news[n].competitor_id, result, sent),
                                           sent, ok)
                /\ insights' = GeneratedInsights(result, Len(alerts) + 1, ok)
                /\ runs' = [runs EXCEPT ![r].item = None,
                                        ![r].results.news_processed = @ + 1,
                                        ![r].results.alerts_created = @ + 1]
    /\ UNCHANGED <<now, monVars, quiet>>

\* process_pending_items, line 612.
RunEnd(r) ==
    /\ runs[r].pc = "news" /\ runs[r].items = <<>> /\ runs[r].item = None
    /\ runs' = [runs EXCEPT ![r] = NoRun]
    /\ quiet' = IF runs[r].alone /\ runs[r].input = Some(Inputs)
                THEN Some(Inputs) ELSE None
    /\ UNCHANGED <<now, monVars, news, alerts, insights>>

Range(seq) == {seq[i] : i \in 1..Len(seq)}

\* The news table after call r is killed: what its session had not
\* committed is lost, the marks of the item in hand included.
AfterInterruptKeepingMarks(r) ==
    IF runs[r].item = None THEN news
    ELSE [news EXCEPT ![runs[r].item[1]].is_processed = TRUE]

AfterInterrupt(r) == news

\* process_pending_items stopped by the end of its process between the
\* discovery of an item and the commit that stores its Alert or its marks.
Interrupt(r) ==
    /\ runs[r].pc \in {"pages", "news"}
    /\ runs[r].snaps # <<>> \/ runs[r].items # <<>> \/ runs[r].item # None
    /\ news' = AfterInterrupt(r)
    /\ runs' = [runs EXCEPT ![r] = [NoRun EXCEPT !.cut = Range(runs[r].items)
                                                    \cup Range(runs[r].item)]]
    /\ quiet' = None
    /\ UNCHANGED <<now, monVars, alerts, insights>>

\* scheduler.run_page_monitor and run_scheduled_job('pages'): check_all_urls
\* has returned a non-empty list of changes and process_pending_items
\* starts in the same session, whose first commit stores what the batch had
\* left unflushed.
JobAnalyze(r) ==
    /\ batch.pc = "loop" /\ batch.todo = {}
    /\ batch.changes # {}
    /\ runs[r].pc = "idle"
    /\ urls' = CommittedUrls(sess)
    /\ sess' = NoSession
    /\ batch' = Idle
    /\ runs' = [runs EXCEPT ![r] =
                  [NoRun EXCEPT !.pc = "pages", !.snaps = unprocessed_snapshots]]
    /\ UNCHANGED <<now, snapshots, lastCheck, news, alerts, insights, quiet>>

\* The same jobs when check_all_urls has returned no change: the job ends
\* and the application context with it.
JobSkip ==
    /\ batch.pc = "loop" /\ batch.todo = {}
    /\ batch.changes = {}
    /\ sess' = NoSession
    /\ batch' = Idle
    /\ UNCHANGED <<now, urls, snapshots, lastCheck, anVars>>

----------------------------------------------------------------------------
(* The alert lifecycle: the alert routes of routes.py and the alerts       *)
(* command of cli.py.                                                      *)

AlertStatuses == {"new", "acknowledged", "in_progress", "resolved", "dismissed"}

\* The timestamps of update_alert if only the acknowledged branch were there.
StatusTimestampsAcknowledgedOnly(row, old_status, status) ==
    IF status = "acknowledged" /\ old_status = "new"
    THEN [row EXCEPT !.acknowledged_at = Some(now)]
    ELSE row

\* update_alert, lines 261-265: the timestamps that follow the new status.
StatusTimestamps(row, old_status, status) ==
    IF status = "acknowledged" /\ old_status = "new"
    THEN [row EXCEPT !.acknowledged_at = Some(now)]
    ELSE IF status = "resolved"
    THEN [row EXCEPT !.resolved_at = Some(now)]
    ELSE row

\* PATCH /alerts/<id> with a status in the request body.
update_alert(alert_id, status) ==
    /\ alert_id \in 1..Len(alerts)
    /\ LET old_status == alerts[alert_id].status
       IN  alerts' = [alerts EXCEPT ![alert_id] =
                        StatusTimestamps([@ EXCEPT !.status = status],
                                         old_status, status)]
    /\ UNCHANGED <<now, monVars, news, insights, runs, quiet>>

\* POST /alerts/<id>/acknowledge.
acknowledge_alert(alert_id) ==
    /\ alert_id \in 1..Len(alerts)
    /\ alerts' = IF alerts[alert_id].status = "new"
                 THEN [alerts EXCEPT ![alert_id].status = "acknowledged",
                                     ![alert_id].acknowledged_at = Some(now)]
                 ELSE alerts
    /\ UNCHANGED <<now, monVars, news, insights, runs, quiet>>

\* POST /alerts/<id>/resolve.
resolve_alert(alert_id) ==
    /\ alert_id \in 1..Len(alerts)
    /\ alerts' = [alerts EXCEPT ![alert_id].status = "resolved",
                                ![alert_id].resolved_at = Some(now)]
    /\ UNCHANGED <<now, monVars, news, insights, runs, quiet>>

\* cmd_alerts, action acknowledge.
cmd_alerts_acknowledge(alert_id) ==
    /\ alert_id \in 1..Len(alerts)
    /\ alerts' = [alerts EXCEPT ![alert_id].status = "acknowledged",
                                ![alert_id].acknowledged_at = Some(now)]
    /\ UNCHANGED <<now, monVars, news, insights, runs, quiet>>

\* cmd_alerts, action resolve.
cmd_alerts_resolve(alert_id) ==
    /\ alert_id \in 1..Len(alerts)
    /\ alerts' = [alerts EXCEPT ![alert_id].status = "resolved",
                                ![alert_id].resolved_at = Some(now)]
    /\ UNCHANGED <<now, monVars, news, insights, runs, quiet>>

----------------------------------------------------------------------------
(* Specifications.                                                          *)

MonitorInit ==
    /\ now = 0
    /\ urls = [s \in Sources |-> NewUrl]
    /\ snapshots = <<>>
    /\ sess = NoSession
    /\ batch = Idle
    /\ lastCheck = None
    /\ news = <<>>
    /\ alerts = <<>>
    /\ insights = {}
    /\ runs = [r \in Runs |-> NoRun]
    /\ quiet = None

\* Every fetch result, a clock that reaches one interval, no deactivation.
MonitorNext ==
    \/ \E s \in Sources, f \in FetchResults : CheckSingle(s, f)
    \/ \E force \in BOOLEAN : BatchStart(force)
    \/ \E s \in Sources : BatchSkip(s)
    \/ \E s \in Sources, f \in FetchResults : BatchCheck(s, f)
    \/ \E flush \in BOOLEAN : BatchEnd(flush)
    \/ \E t \in TwoInstants : Tick(t)

SpecMonitor == MonitorInit /\ [][MonitorNext]_vars

\* One page text, a clock that reads an hour before and after the interval.
ScheduleNext ==
    \/ \E s \in Sources, f \in OnePageFetches : CheckSingle(s, f)
    \/ \E force \in BOOLEAN : BatchStart(force)
    \/ \E s \in Sources : BatchSkip(s)
    \/ \E s \in Sources, f \in OnePageFetches : BatchCheck(s, f)
    \/ \E flush \in BOOLEAN : BatchEnd(flush)
    \/ \E t \in Instants : Tick(t)

SpecSchedule == MonitorInit /\ [][ScheduleNext]_vars

\* The operator deactivates and reactivates sources at any moment.
ActiveNext ==
    \/ \E s \in Sources, f \in OnePageFetches : CheckSingle(s, f)
    \/ \E force \in BOOLEAN : BatchStart(force)
    \/ \E s \in Sources : BatchSkip(s)
    \/ \E s \in Sources, f \in OnePageFetches : BatchCheck(s, f)
    \/ \E flush \in BOOLEAN : BatchEnd(flush)
    \/ \E s \in Sources, a \in BOOLEAN : UpdateUrl(s, a)
    \/ \E t \in TwoInstants : Tick(t)

SpecActive == MonitorInit /\ [][ActiveNext]_vars

\* The analyzer is specified with checks of one page whose content changes,
\* two collected articles and the Teams webhook not configured.
WatchedPage == 1
PageFetches == {[html |-> Some(t), error |-> None] : t \in {TextAB, TextEmpty}}
AnalyzerInstants == {0, RateLimitHours, RateLimitHours + 1}

\* Overlapping process_pending_items calls, all within the rate limit window.
AnalyzerNext ==
    \/ \E f \in PageFetches : CheckSingle(WatchedPage, f)
    \/ \E a \in Articles : AddNews(a.url, a.competitor_id)
    \/ \E r \in Runs : RunStart(r)
    \/ \E r \in Runs, reply \in Replies : PageItem(r, reply, FALSE, TRUE)
    \/ \E r \in Runs : PagesDone(r)
    \/ \E r \in Runs : NewsBegin(r)
    \/ \E r \in Runs, reply \in Replies : NewsFinish(r, reply, FALSE, TRUE)
    \/ \E r \in Runs : RunEnd(r)

SpecAnalyzer == MonitorInit /\ [][AnalyzerNext]_vars

\* process_pending_items called again and again by one caller, never
\* overlapping, over a clock that passes the rate limit.
Scheduler == 1

SuccessionNext ==
    \/ \E f \in PageFetches : CheckSingle(WatchedPage, f)
    \/ \E a \in Articles : AddNews(a.url, a.competitor_id)
    \/ RunStart(Scheduler)
    \/ \E r \in Runs, reply \in Replies : PageItem(r, reply, FALSE, TRUE)
    \/ \E r \in Runs : PagesDone(r)
    \/ \E r \in Runs : NewsBegin(r)
    \/ \E r \in Runs, reply \in Replies : NewsFinish(r, reply, FALSE, TRUE)
    \/ \E r \in Runs : RunEnd(r)
    \/ \E t \in AnalyzerInstants : Tick(t)

SpecSuccession == MonitorInit /\ [][SuccessionNext]_vars

\* One story that resurfaces: an article collected more than once, handled
\* by calls that never overlap, over a clock that passes the rate limit.
Story == [url |-> "u3", competitor_id |-> Some(1)]

DedupNext ==
    \/ AddNews(Story.url, Story.competitor_id)
    \/ AddNewsRaced(Story.url, Story.competitor_id)
    \/ RunStart(Scheduler)
    \/ \E r \in Runs : PagesDone(r)
    \/ \E r \in Runs : NewsBegin(r)
    \/ \E r \in Runs, reply \in Replies, sent \in BOOLEAN, ok \in BOOLEAN :
          NewsFinish(r, reply, sent, ok)
    \/ \E r \in Runs : RunEnd(r)
    \/ \E t \in AnalyzerInstants : Tick(t)

SpecDedup == MonitorInit /\ [][DedupNext]_vars

\* The life of the Alert of one story: created by the scheduler's calls,
\* then worked on through the routes and the command line as time passes.
AlertIds == {1}

LifecycleNext ==
    \/ AddNews(Story.url, Story.competitor_id)
    \/ RunStart(Scheduler)
    \/ \E r \in Runs : PagesDone(r)
    \/ \E r \in Runs : NewsBegin(r)
    \/ \E r \in Runs : NewsFinish(r, Some(ReplyHigh), FALSE, TRUE)
    \/ \E r \in Runs : RunEnd(r)
    \/ \E a \in AlertIds, status \in AlertStatuses : update_alert(a, status)
    \/ \E a \in AlertIds : acknowledge_alert(a)
    \/ \E a \in AlertIds : resolve_alert(a)
    \/ \E a \in AlertIds : cmd_alerts_acknowledge(a)
    \/ \E a \in AlertIds : cmd_alerts_resolve(a)
    \/ \E t \in AnalyzerInstants : Tick(t)

SpecLifecycle == MonitorInit /\ [][LifecycleNext]_vars

\* The same Alert when the body of the status update request is not held to
\* the enumeration: request.get_json() gives whatever the client sent.
RequestStatuses == AlertStatuses \cup {"archived"}

RequestNext ==
    \/ AddNews(Story.url, Story.competitor_id)
    \/ RunStart(Scheduler)
    \/ \E r \in Runs : PagesDone(r)
    \/ \E r \in Runs : NewsBegin(r)
    \/ \E r \in Runs : NewsFinish(r, Some(ReplyHigh), FALSE, TRUE)
    \/ \E r \in Runs : RunEnd(r)
    \/ \E a \in AlertIds, status \in RequestStatuses : update_alert(a, status)
    \/ \E a \in AlertIds : acknowledge_alert(a)
    \/ \E a \in AlertIds : resolve_alert(a)
    \/ \E t \in AnalyzerInstants : Tick(t)

SpecRequest == MonitorInit /\ [][RequestNext]_vars

\* An analysis capability that answers outside the value ranges: scores
\* above 100 and below 0, a signal type and a risk level that are not in
\* the enumerations.
ReplyWild == [signal_type |-> "rumour", risk_level |-> "extreme",
              risk_score |-> 250, confidence_score |-> -5,
              immediate_actions |-> <<>>]
WildReplies == {Some(ReplyWild), Some(ReplyHigh)}

ClampNext ==
    \/ \E f \in PageFetches : CheckSingle(WatchedPage, f)
    \/ AddNews(Story.url, Story.competitor_id)
    \/ RunStart(Scheduler)
    \/ \E r \in Runs, reply \in WildReplies : PageItem(r, reply, FALSE, TRUE)
    \/ \E r \in Runs : PagesDone(r)
    \/ \E r \in Runs : NewsBegin(r)
    \/ \E r \in Runs, reply \in WildReplies : NewsFinish(r, reply, FALSE, TRUE)
    \/ \E r \in Runs : RunEnd(r)

SpecClamp == MonitorInit /\ [][ClampNext]_vars

\* The side effects of an Alert: every outcome of the Teams webhook and of
\* insight generation, for a changed page and an article handled by calls
\* that never overlap.
EffectsNext ==
    \/ \E f \in PageFetches : CheckSingle(WatchedPage, f)
    \/ AddNews(Story.url, Story.competitor_id)
    \/ RunStart(Scheduler)
    \/ \E r \in Runs, reply \in Replies, sent \in BOOLEAN, ok \in BOOLEAN :
          PageItem(r, reply, sent, ok)
    \/ \E r \in Runs : PagesDone(r)
    \/ \E r \in Runs : NewsBegin(r)
    \/ \E r \in Runs, reply \in Replies, sent \in BOOLEAN, ok \in BOOLEAN :
          NewsFinish(r, reply, sent, ok)
    \/ \E r \in Runs : RunEnd(r)

SpecEffects == MonitorInit /\ [][EffectsNext]_vars


\* Calls of one caller that can be cut short at any point and are then
\* started again.
InterruptNext ==
    \/ \E f \in PageFetches : CheckSingle(WatchedPage, f)
    \/ AddNews(Story.url, Story.competitor_id)
    \/ RunStart(Scheduler)
    \/ \E r \in Runs, reply \in Replies : PageItem(r, reply, FALSE, TRUE)
    \/ \E r \in Runs : PagesDone(r)
    \/ \E r \in Runs : NewsBegin(r)
    \/ \E r \in Runs, reply \in Replies : NewsFinish(r, reply, FALSE, TRUE)
    \/ \E r \in Runs : RunEnd(r)
    \/ \E r \in Runs : Interrupt(r)

SpecInterrupt == MonitorInit /\ [][InterruptNext]_vars

\* One page whose text is edited between checks: lines added, removed and
\* moved, a table rule among them.
LineA == <<"a">>
LineB == <<"b">>
LineC == <<"c">>
LineD == <<"d">>
LineRule == <<"---|---">>
DiffTexts ==
    {<<>>, <<LineA>>, <<LineA, LineB>>, <<LineB, LineA>>,
     <<LineA, LineB, LineC>>, <<LineA, LineC, LineD>>, <<LineC, LineA, LineB>>,
     <<LineA, LineB, LineA>>, <<LineA, LineRule>>, <<LineA, LineRule, LineB>>}
DiffFetches == {[html |-> Some(t), error |-> None] : t \in DiffTexts}

DiffNext == \E f \in DiffFetches : CheckSingle(WatchedPage, f)

SpecDiff == MonitorInit /\ [][DiffNext]_vars

\* A forced batch run and manual checks of the watched page that can fall
\* inside it.
OverlapNext ==
    \/ BatchStart(TRUE)
    \/ \E s \in Sources, f \in PageFetches : BatchCheck(s, f)
    \/ \E flush \in BOOLEAN : BatchEnd(flush)
    \/ \E f \in PageFetches : CheckSingle(WatchedPage, f)
    \/ \E f \in PageFetches : CheckSingleOverlapping(WatchedPage, f)
    \/ \E t \in TwoInstants : Tick(t)

SpecOverlap == MonitorInit /\ [][OverlapNext]_vars

\* The scheduled page-monitor job, and manual checks of the watched page
\* between the jobs.
JobFetches == PageFetches \cup {[html |-> None, error |-> Some(TimeoutMessage)]}

JobNext ==
    \/ \E f \in PageFetches : CheckSingle(WatchedPage, f)
    \/ BatchStart(FALSE)
    \/ \E s \in Sources : BatchSkip(s)
    \/ \E s \in Sources, f \in JobFetches : BatchCheck(s, f)
    \/ JobAnalyze(Scheduler)
    \/ JobSkip
    \/ \E r \in Runs : PageItem(r, Some(ReplyHigh), FALSE, TRUE)
    \/ \E r \in Runs : PagesDone(r)
    \/ \E r \in Runs : RunEnd(r)
    \/ \E t \in TwoInstants : Tick(t)

SpecJob == MonitorInit /\ [][JobNext]_vars

----------------------------------------------------------------------------
(* Properties of the monitor.                                              *)

\* The step is one check_url call on source s whose fetch returned f.
CheckStep(s, f) == CheckSingle(s, f) \/ BatchCheck(s, f)

\* The loop of check_all_urls has just decided about source s.
VisitStep(s) ==
    /\ batch.pc = "loop" /\ batch'.pc = "loop"
    /\ s \in batch.todo /\ s \notin batch'.todo

\* isDue of the scheduler, on the committed row of source s.
DueNow(s) ==
    \/ batch.force
    \/ urls[s].last_checked_at = None
    \/ now >= urls[s].last_checked_at[1] + urls[s].check_interval_hours

SnapshotsOf(s) == {i \in 1..Len(snapshots) : snapshots[i].monitored_url_id = s}

\* C4: the first snapshot ever created for a source has has_changes = false,
\* whatever failed fetches, forced checks and successful fetches came before.
FirstSnapshotUnchanged ==
    \A i \in 1..Len(snapshots) :
        (\A j \in 1..(i - 1) :
            snapshots[j].monitored_url_id # snapshots[i].monitored_url_id)
        => ~snapshots[i].has_changes

\* C4 witness: a forced batch run has just captured a source's first snapshot
\* while the other source has failed fetches behind it.
FirstSnapshotByForcedCheck ==
    \E s \in Sources, o \in Sources :
        /\ batch.pc = "loop" /\ batch.force /\ s \in batch.checked
        /\ lastCheck # None /\ lastCheck[1].url = s
        /\ lastCheck[1].fetch.html # None
        /\ Cardinality(SnapshotsOf(s)) = 1
        /\ o # s /\ urls[o].consecutive_errors > 0

\* C5: for a source that has a previous hash, the snapshot check_url creates
\* has has_changes = true exactly when its content hash differs from the
\* source's last_content_hash.
HasChangesIsHashInequality ==
    [][\A s \in Sources, f \in FetchResults :
         (CheckStep(s, f) /\ f.error = None /\ urls[s].last_content_hash # None)
         => /\ Len(snapshots') = Len(snapshots) + 1
            /\ LET snap == snapshots'[Len(snapshots')]
               IN  snap.has_changes
                     = (snap.content_hash # urls[s].last_content_hash[1])]_vars

\* C5 witness: a source holds two snapshots of different texts with the same
\* hash, the second one unchanged.
SameHashDifferentText ==
    \E s \in Sources :
        /\ urls[s].last_content = Some(TextABOneLine)
        /\ urls[s].last_content_hash = Some(compute_hash(TextAB))
        /\ Cardinality(SnapshotsOf(s)) = 2
        /\ \A i \in SnapshotsOf(s) : ~snapshots[i].has_changes

\* C7: every failed fetch adds exactly 1 to consecutive_errors, sets
\* last_error to the message and last_checked_at to now, creates no snapshot
\* and leaves last_content_hash and last_content alone.
FailedFetchRecorded ==
    [][\A s \in Sources, f \in FetchResults :
         (CheckStep(s, f) /\ f.error # None)
         => /\ urls'[s].consecutive_errors = urls[s].consecutive_errors + 1
            /\ urls'[s].last_error = f.error
            /\ urls'[s].last_checked_at = Some(now)
            /\ snapshots' = snapshots
            /\ urls'[s].last_content_hash = urls[s].last_content_hash
            /\ urls'[s].last_content = urls[s].last_content]_vars

\* C8: every successful fetch sets consecutive_errors = 0, last_error = null
\* and last_checked_at = now and adds exactly one snapshot of the source.
SuccessfulFetchRecorded ==
    [][\A s \in Sources, f \in FetchResults :
         (CheckStep(s, f) /\ f.error = None)
         => /\ urls'[s].consecutive_errors = 0
            /\ urls'[s].last_error = None
            /\ urls'[s].last_checked_at = Some(now)
            /\ Len(snapshots') = Len(snapshots) + 1
            /\ SubSeq(snapshots', 1, Len(snapshots)) = snapshots
            /\ snapshots'[Len(snapshots')].monitored_url_id = s]_vars

\* C8 witness: a successful fetch of unchanged content at a later hour left
\* a second snapshot and a clean error state.
UnchangedContentSnapshotted ==
    \E s \in Sources :
        /\ lastCheck # None /\ lastCheck[1].url = s
        /\ lastCheck[1].fetch.error = None
        /\ Cardinality(SnapshotsOf(s)) = 2
        /\ \A i \in SnapshotsOf(s) : ~snapshots[i].has_changes
        /\ urls[s].consecutive_errors = 0 /\ urls[s].last_error = None
        /\ urls[s].last_checked_at = Some(now) /\ now > 0

\* C10: an exception while checking one source does not abort the batch,
\* and the failure is recorded in that source's own state and in no other's.
BatchExceptionRecorded ==
    [][\A s \in Sources, f \in FetchResults :
         (BatchCheck(s, f) /\ s \in batch'.raised)
         => /\ batch'.pc = "loop" /\ batch'.todo = batch.todo \ {s}
            /\ urls'[s].consecutive_errors = urls[s].consecutive_errors + 1
            /\ urls'[s].last_error # None
            /\ \A o \in Sources \ {s} : urls'[o] = urls[o]]_vars

\* C6: the loop checks an active source exactly when force is set, or the
\* source was never checked, or now >= last_checked_at + interval.
DueRule ==
    [][\A s \in Sources :
         VisitStep(s) => (s \in batch'.checked <=> DueNow(s))]_vars

\* C6 witness: an unforced run at hour 24 has checked one source and has
\* just skipped the other, which was last checked 23 hours before.
SkippedAt23OtherChecked ==
    \E s \in Sources, o \in Sources :
        /\ batch.pc = "loop" /\ ~batch.force
        /\ batch.visit # None /\ batch.visit[1].url = o
        /\ ~batch.visit[1].checked
        /\ batch.visit[1].last_checked_at # None
        /\ batch.visit[1].at - batch.visit[1].last_checked_at[1] = 23
        /\ urls[o].check_interval_hours = 24
        /\ s # o /\ s \in batch.checked
        /\ urls[s].last_checked_at = Some(batch.visit[1].at)

\* C9: no check attempt changes is_active; a run lists every active source
\* however many fetches failed, and checks it when it is due.
ChecksNeverDeactivate ==
    [][/\ (\E s \in Sources : urls'[s].is_active # urls[s].is_active)
            => \E s \in Sources, a \in BOOLEAN : UpdateUrl(s, a)
       /\ (batch.pc = "idle" /\ batch'.pc = "loop")
            => batch'.todo = {s \in Sources : urls[s].is_active}
       /\ \A s \in Sources :
            (VisitStep(s) /\ urls[s].consecutive_errors > 0 /\ DueNow(s))
            => s \in batch'.checked]_vars

\* C9 witness: an unforced run has checked a source again although its
\* fetches keep failing, and the source is still active.
FailingSourceStillChecked ==
    \E s \in Sources :
        /\ batch.pc = "loop" /\ ~batch.force /\ s \in batch.checked
        /\ lastCheck # None /\ lastCheck[1].url = s
        /\ lastCheck[1].fetch.error = Some(TimeoutMessage)
        /\ urls[s].consecutive_errors = 2
        /\ urls[s].is_active

----------------------------------------------------------------------------
(* Properties of the analyzer.                                             *)

AlertsOf(table, source_type, source_id) ==
    {a \in 1..Len(table) : /\ table[a].source_type = source_type
                           /\ table[a].source_id = source_id}

\* C1: however process_pending_items calls overlap, the store never holds
\* two Alerts with the same (source_type, source_id).
AtMostOneAlertPerSource ==
    \A a \in 1..Len(alerts) :
        Cardinality(AlertsOf(alerts, alerts[a].source_type, alerts[a].source_id)) = 1

PageChangeGetsOneAlert ==
    [][\A r \in Runs :
         /\ (runs[r].pc = "idle" /\ runs'[r].pc = "pages")
            => \A i \in 1..Len(snapshots) :
                 (snapshots[i].has_changes /\ AlertsOf(alerts, "page_change", i) = {})
                 => \E k \in 1..Len(runs'[r].snaps) : runs'[r].snaps[k] = i
         /\ (runs[r].pc = "pages" /\ runs[r].snaps # <<>>
               /\ runs'[r].snaps = Tail(runs[r].snaps))
            => LET made == AlertsOf(alerts', "page_change", Head(runs[r].snaps))
               IN  /\ Cardinality(made) = 1
                   /\ \A a \in made : alerts'[a].status = "new"]_vars

NewsItemStep(r) ==
    /\ runs[r].pc = "news" /\ runs[r].items # <<>> /\ runs[r].item = None
    /\ runs'[r].items = Tail(runs[r].items)

\* An Alert with this source_url was detected within the last 6 hours.
RateLimited(url) ==
    \E a \in 1..Len(alerts) :
        /\ alerts[a].source_url = url
        /\ now - alerts[a].detected_at <= 6

\* C12: analyze_news_item on a candidate whose URL is the source_url of an
\* Alert detected within the last 6 hours does not invoke the analysis,
\* marks the candidate processed and creates no Alert.
RateLimitedNewsSkipped ==
    [][\A r \in Runs :
         (NewsItemStep(r) /\ RateLimited(news[Head(runs[r].items)].url))
         => /\ runs'[r].item = None
            /\ news'[Head(runs[r].items)].is_processed
            /\ news'[Head(runs[r].items)].is_relevant
                 = news[Head(runs[r].items)].is_relevant
            /\ alerts' = alerts]_vars

\* C12 witness: a candidate was marked processed without a relevance verdict
\* in a call that created no news Alert, an Alert of its URL being in the store.
RateLimitedNewsMarked ==
    \E r \in Runs, n \in 1..Len(news) :
        /\ runs[r].pc = "news" /\ runs[r].item = None
        /\ runs[r].results.news_processed > 0
        /\ news[n].is_processed /\ news[n].is_relevant = None
        /\ AlertsOf(alerts, "news", n) = {}
        /\ \E a \in 1..Len(alerts) : alerts[a].source_url = news[n].url

NewsAlertsOf(url) ==
    {a \in 1..Len(alerts) : alerts[a].source_type = "news" /\ alerts[a].source_url = url}

\* Two news candidates of one URL, both collected and handled within 6 hours.
HandledTwice(n, m) ==
    /\ n < m /\ news[n].url = news[m].url
    /\ news[n].is_processed /\ news[m].is_processed
    /\ now <= 6

\* C13 as stated: two candidates with the same source_url discovered within
\* 6 hours of each other produce exactly one Alert, whatever the analysis
\* returned.
SameUrlExactlyOneAlert ==
    \A n \in 1..Len(news), m \in 1..Len(news) :
        HandledTwice(n, m) => Cardinality(NewsAlertsOf(news[n].url)) = 1

\* C13 amended: two candidates with the same source_url handled by calls that
\* do not overlap never have Alerts detected within 6 hours of each other, so
\* within 6 hours they produce at most one Alert.
SameUrlAtMostOneAlert ==
    /\ \A a \in 1..Len(alerts), b \in 1..Len(alerts) :
         (/\ a < b /\ alerts[a].source_type = "news" /\ alerts[b].source_type = "news"
          /\ alerts[a].source_url = alerts[b].source_url)
         => alerts[b].detected_at - alerts[a].detected_at > 6
    /\ \A n \in 1..Len(news), m \in 1..Len(news) :
         HandledTwice(n, m) => Cardinality(NewsAlertsOf(news[n].url)) <= 1

\* C13 witness: the first of two candidates of one URL has its Alert and the
\* second was handled within 6 hours and has none.
SecondCandidateSuppressed ==
    \E n \in 1..Len(news), m \in 1..Len(news) :
        /\ HandledTwice(n, m)
        /\ AlertsOf(alerts, "news", n) # {}
        /\ AlertsOf(alerts, "news", m) = {}
        /\ news[m].is_relevant = None
        /\ Cardinality(NewsAlertsOf(news[n].url)) = 1

\* Call r leaves analyze_news_item for the news item that was being analysed.
NewsAnalysedStep(r) == runs[r].item # None /\ runs'[r].item = None

\* C14: a candidate that is not rate-limited is marked processed, gets
\* is_relevant = (risk_score >= relevance threshold), and gets an Alert with
\* source_type news and its id exactly when it is relevant.
RelevanceDecidesNewsAlert ==
    [][\A r \in Runs, reply \in Replies, sent \in BOOLEAN, ok \in BOOLEAN :
         NewsFinish(r, reply, sent, ok)
         => LET n == runs[r].item[1]
                relevant == analyze_content(reply).risk_score >= RelevanceThreshold
            IN  /\ news'[n].is_processed
                /\ news'[n].is_relevant = Some(relevant)
                /\ relevant <=> (AlertsOf(alerts', "news", n)
                                   # AlertsOf(alerts, "news", n))]_vars

\* The step is analyze_page_change in call r, with these outcomes.
PageHandled(r, reply, sent, ok) == PageItem(r, reply, sent, ok)

\* The step is analyze_news_item in call r creating an Alert.
NewsAlerted(r, reply, sent, ok) ==
    /\ NewsFinish(r, reply, sent, ok)
    /\ analyze_content(reply).risk_score >= RelevanceThreshold
    /\ news[runs[r].item[1]].competitor_id # None

Notified(source_type, source_id) ==
    {a \in AlertsOf(alerts, source_type, source_id) : alerts[a].notification_sent}

WithInsight(source_type, source_id) ==
    AlertsOf(alerts, source_type, source_id) \cap insights

\* C16: however process_pending_items calls repeat or overlap, a unit of work
\* (a snapshot or a news candidate) has its notification dispatched once and
\* its insight generated once, the insight only for risk_level critical or high.
SideEffectsOncePerUnit ==
    /\ \A a \in 1..Len(alerts) :
         /\ Cardinality(Notified(alerts[a].source_type, alerts[a].source_id)) <= 1
         /\ Cardinality(WithInsight(alerts[a].source_type, alerts[a].source_id)) <= 1
    /\ \A a \in insights : alerts[a].risk_level \in {"critical", "high"}

\* The step asks for alert a to be acknowledged, through the acknowledge
\* route, the status update route or the command line.
AcknowledgeStep(a) ==
    acknowledge_alert(a) \/ update_alert(a, "acknowledged") \/ cmd_alerts_acknowledge(a)

\* C17: acknowledged_at is written only when an alert goes from new to
\* acknowledged, and acknowledging an alert that is not new changes neither
\* its status nor its acknowledged_at.
AcknowledgedOnlyFromNew ==
    [][\A a \in 1..Len(alerts) :
         /\ alerts'[a].acknowledged_at # alerts[a].acknowledged_at
               => alerts[a].status = "new" /\ alerts'[a].status = "acknowledged"
         /\ AcknowledgeStep(a) /\ alerts[a].status # "new"
               => /\ alerts'[a].status = alerts[a].status
                  /\ alerts'[a].acknowledged_at = alerts[a].acknowledged_at]_vars

\* C18: a step that makes an alert resolved, whatever it was before, sets
\* its resolved_at to the time of the step.
ResolvedAtSetOnResolve ==
    [][\A a \in 1..Len(alerts) :
         alerts[a].status # "resolved" /\ alerts'[a].status = "resolved"
            => alerts'[a].resolved_at = Some(now)]_vars

\* C18 witness: an alert that was acknowledged earlier, has since been
\* resolved at a later time and carries that time.
ResolvedLaterThanAcknowledged ==
    \E a \in 1..Len(alerts) :
        /\ alerts[a].status = "resolved"
        /\ alerts[a].acknowledged_at # None
        /\ alerts[a].resolved_at = Some(now)
        /\ alerts[a].acknowledged_at[1] < now

\* C19: a resolved or dismissed alert keeps its status, and an alert that
\* has left new never returns to it.
TerminalStatusesStay ==
    [][\A a \in 1..Len(alerts) :
         /\ alerts[a].status \in {"resolved", "dismissed"}
               => alerts'[a].status = alerts[a].status
         /\ alerts[a].status # "new" => alerts'[a].status # "new"]_vars

\* The last Alert stored is for the given unit of work and carries the
\* degraded result.
DegradedAlertFor(table, source_type, source_id) ==
    /\ table # <<>>
    /\ LET alert == table[Len(table)]
       IN  /\ alert.source_type = source_type /\ alert.source_id = source_id
           /\ alert.risk_level = "medium" /\ alert.confidence_score = 0
           /\ "Manual review required" \in
                 {alert.recommended_actions[i] :
                     i \in 1..Len(alert.recommended_actions)}

\* C20: when the analysis call fails, the snapshot or news item being
\* analysed still ends with a new stored Alert that carries the degraded
\* result: risk_level medium, confidence_score 0, a manual review action.
FailedAnalysisStillAlerts ==
    [][\A r \in Runs, sent \in BOOLEAN, ok \in BOOLEAN :
         /\ PageItem(r, None, sent, ok)
               => /\ Len(alerts') = Len(alerts) + 1
                  /\ DegradedAlertFor(alerts', "page_change", Head(runs[r].snaps))
         /\ NewsFinish(r, None, sent, ok)
               => /\ Len(alerts') = Len(alerts) + 1
                  /\ DegradedAlertFor(alerts', "news", runs[r].item[1])]_vars

\* The items call r has discovered and not yet committed.
InHand(r) ==
    [snaps |-> Range(runs[r].snaps),
     news |-> Range(runs[r].items) \cup Range(runs[r].item)]

\* C21: a call cut short between discovering an item and committing it
\* leaves the stored rows as they were, so the next discovery returns the
\* items it had in hand; and a call that then runs to its end leaves every
\* snapshot and news item that was there at its start with what an
\* uninterrupted call gives it: one Alert per changed snapshot, every news
\* item marked processed, and at most one Alert per news item.
InterruptedRunLeavesNoClaim ==
    [][\A r \in Runs :
         /\ Interrupt(r)
               => /\ alerts' = alerts /\ news' = news /\ snapshots' = snapshots
                  /\ InHand(r).snaps \subseteq Range(unprocessed_snapshots')
                  /\ InHand(r).news \subseteq Range(unprocessed_news')
         /\ RunEnd(r) /\ runs[r].input # None
               => /\ \A i \in 1..runs[r].input[1].snapshots :
                        snapshots[i].has_changes
                           => Cardinality(AlertsOf(alerts, "page_change", i)) = 1
                  /\ \A n \in 1..runs[r].input[1].news :
                        /\ news[n].is_processed
                        /\ Cardinality(AlertsOf(alerts, "news", n)) <= 1]_vars

\* C21 witness: a call has been cut short with a news item in hand, and the
\* item has since been handled and has its Alert.
HandledAfterInterrupt ==
    \E r \in Runs : \E n \in runs[r].cut :
        news[n].is_processed /\ HasAlert("news", n)

\* The lines of text at the positions in keep, in order, blank lines left out.
Pick(text, keep) ==
    LET at == SelectSeq([i \in 1..Len(text) |-> i],
                        LAMBDA i : i \in keep /\ text[i] # <<>>)
    IN  [k \in 1..Len(at) |-> text[at[k]]]

\* removed and added are what a line-based diff of old and new reports:
\* some lines common to both in the same order are kept, no further common
\* line could be kept with them, and the rest of old is removed and the
\* rest of new is added.
IsLineDiff(old, new, removed, added) ==
    LET Common(A, B) == Pick(old, A) = Pick(new, B)
    IN  \E A \in SUBSET (1..Len(old)), B \in SUBSET (1..Len(new)) :
            /\ Common(A, B)
            /\ \A A2 \in SUBSET (1..Len(old)), B2 \in SUBSET (1..Len(new)) :
                  A \subseteq A2 /\ B \subseteq B2 /\ Common(A2, B2)
                     => A2 = A /\ B2 = B
            /\ removed = Pick(old, (1..Len(old)) \ A)
            /\ added = Pick(new, (1..Len(new)) \ B)

\* C22: the diff summary of a changed page lists the removed and the added
\* lines of a line-based diff of the previous and the new text, lines common
\* to both in the same order being in neither list; from a, b, c to a, c, d
\* it is one removed line, b, and one added line, d.
SummaryIsLineDiff ==
    [][\A f \in DiffFetches :
         CheckSingle(WatchedPage, f) /\ snapshots' # snapshots
           => LET old == urls[WatchedPage].last_content
                  new == urls'[WatchedPage].last_content[1]
                  summary == snapshots'[Len(snapshots')].diff_summary
              IN  summary # None
                    => /\ IsLineDiff(old[1], new, summary[1].removed, summary[1].added)
                       /\ old[1] = <<LineA, LineB, LineC>> /\ new = <<LineA, LineC, LineD>>
                             => /\ summary[1].removed = <<LineB>>
                                /\ summary[1].added = <<LineD>>]_vars

\* C23: a check that has no previous text for the source, or whose diff
\* against the previous text is empty, creates a snapshot with
\* has_changes = false, even if the new hash differs from the stored one.
NoBaselineTextNoChange ==
    [][\A s \in Sources, f \in FetchResults :
         (CheckStep(s, f) /\ Len(snapshots') = Len(snapshots) + 1)
         => LET old == urls[s].last_content
                new == urls'[s].last_content[1]
            IN  (\/ ~TruthyText(old)
                 \/ compute_diff(old[1], new) = <<>>)
                => ~snapshots'[Len(snapshots')].has_changes]_vars

\* hash is what the most recent snapshot of source s holds, or None if the
\* source has no snapshot.
IsPrecedingHash(s, hash) ==
    IF SnapshotsOf(s) = {} THEN hash = None
    ELSE \E i \in SnapshotsOf(s) :
            /\ \A j \in SnapshotsOf(s) : j <= i
            /\ hash = Some(snapshots[i].content_hash)

\* C24: the previous hash a check compares against is that of the
\* source's immediately preceding snapshot, and the stored
\* last_content_hash stays equal to the content_hash of the source's
\* most recent snapshot, also when a manual check of the source falls
\* inside a batch run.
ComparesWithPrecedingSnapshot ==
    [][\A s \in Sources, f \in PageFetches :
         /\ BatchCheck(s, f)
               => IsPrecedingHash(s, Loaded(s)[1].last_content_hash)
         /\ CheckSingle(s, f) \/ CheckSingleOverlapping(s, f)
               => IsPrecedingHash(s, urls[s].last_content_hash)
         /\ SnapshotsOf(s)' # {}
               => IsPrecedingHash(s, urls[s].last_content_hash)']_vars

\* C25: when a scheduled page-monitor job ends, every snapshot with
\* has_changes = true that was there when it started has been handed to
\* process_pending_items, those left over from before included, also when
\* the job's own fetches found nothing new.
JobAnalysesLeftovers ==
    [][JobSkip => unprocessed_snapshots = <<>>]_vars

\* C26: every check attempt on a source, successful or failed, leaves the
\* stored last_checked_at at the time of the attempt, and an unforced batch
\* run does not check the source it was last made on before one interval
\* has passed since.
AttemptPostponesNextCheck ==
    [][\A s \in Sources, f \in FetchResults :
         /\ CheckStep(s, f) => urls'[s].last_checked_at = Some(now)
         /\ (/\ BatchCheck(s, f) /\ ~batch.force
             /\ lastCheck # None /\ lastCheck[1].url = s)
               => now >= lastCheck[1].at + urls[s].check_interval_hours]_vars

\* C27: whatever values the requests carry, every Alert's status is one of
\* new, acknowledged, in_progress, resolved, dismissed.
StatusInEnumeration ==
    \A a \in 1..Len(alerts) : alerts[a].status \in AlertStatuses

\* C28: an Alert the orchestrator creates has risk_score and
\* confidence_score in 0..100, a signal_type of the enumeration and a
\* risk_level of the enumeration: a score above 100 is stored as 100, one
\* below 0 as 0, an unknown signal_type as other, an unknown risk_level as
\* medium.
AlertValuesInRange ==
    [][\A r \in Runs, reply \in WildReplies :
         (\/ PageItem(r, reply, FALSE, TRUE)
          \/ NewsFinish(r, reply, FALSE, TRUE)) /\ Len(alerts') > Len(alerts)
         => LET alert == alerts'[Len(alerts')]
                answer == reply[1]
            IN  /\ alert.risk_score \in 0..100
                /\ alert.confidence_score \in 0..100
                /\ alert.signal_type \in SignalTypes
                /\ alert.risk_level \in RiskLevels
                /\ answer.risk_score > 100 => alert.risk_score = 100
                /\ answer.confidence_score < 0 => alert.confidence_score = 0
                /\ answer.signal_type \notin SignalTypes => alert.signal_type = "other"
                /\ answer.risk_level \notin RiskLevels => alert.risk_level = "medium"]_vars

\* C28 witness: an Alert made from the answer with the values out of range.
WildAnswerStored ==
    \E a \in 1..Len(alerts) :
        /\ alerts[a].risk_score = 100 /\ alerts[a].confidence_score = 0
        /\ alerts[a].signal_type = "other" /\ alerts[a].risk_level = "medium"
        /\ alerts[a].recommended_actions = <<>>

\* C29: in every stored state an Alert with source_type news and source_id
\* n exists only if news item n is marked processed and relevant, the
\* Alert and the marks appearing in the same commit, and is_processed
\* never goes from true back to false.
NewsAlertImpliesMarks ==
    [][/\ \A a \in 1..Len(alerts') :
             alerts'[a].source_type = "news"
                => /\ news'[alerts'[a].source_id].is_processed
                   /\ news'[alerts'[a].source_id].is_relevant = Some(TRUE)
       /\ \A n \in 1..Len(news) :
             news[n].is_processed => news'[n].is_processed]_vars

\* C30: a process_pending_items call that reaches an unprocessed news item
\* leaves it marked processed, whatever its competitor_id (null included)
\* and whatever the analysis answers.
ReachedNewsMarkedProcessed ==
    [][\A r \in Runs, reply \in Replies :
         /\ NewsBegin(r) /\ runs'[r].item = None
               => news'[Head(runs[r].items)].is_processed
         /\ NewsFinish(r, reply, FALSE, TRUE)
               => news'[runs[r].item[1]].is_processed]_vars

====
